---- MODULE Spec2Model ----
(***************************************************************************)
(* Shamir secret sharing over GF(256), one polynomial per secret byte.     *)
(*                                                                         *)
(*   src/math.go   f, multiply_polynomials, add_polynomials, full_lagrange *)
(*   src/sss.go    the Shamir struct and New (Go), and the reference       *)
(*                 methods is_valid_share, compute_share and               *)
(*                 recover_secretdata the file carries in its body         *)
(*                                                                         *)
(* The field primitives gf256_add, gf256_sub, gf256_mul and gf256_div are  *)
(* called by src/math.go but defined in no file under src/; they are       *)
(* modelled from section 4.1 of the specification.                         *)
(***************************************************************************)
EXTENDS Integers, Sequences, FiniteSets, TLC

VARIABLES encoder, session, last

vars == <<encoder, session, last>>

(***************************************************************************)
(* Bounds of the model.                                                    *)
(***************************************************************************)
MaxThreshold == 2
MaxSecretLen == 2
MaxShares == 3

\* the secrets an encoder is constructed with are prefixes of these texts
SecretTexts == { <<115, 101, 99, 114>>, <<0, 0, 0, 0>> }
\* the streams the random source may hand out, by seed (see urandom)
RandomSeeds == { 0, 7 }
\* share indices the caller asks Compute for
ComputeXs == { 0, 1, 2, 3, 254, 255, 256 }
\* share indices of the shares handed to IsValid
ValidateXs == { 1, 2, 3, 254, 255 }
\* share indices of the shares handed to Recover, and those a share of the
\* list may be replaced by
ShareXs == { 1, 2, 254 }
EdgeXs == { 255 }
\* what a corrupted byte has had added to it (mod 256): in a share handed
\* to Recover, and in a share handed to IsValid
Deltas == { 255 }
ValidateDeltas == { 1, 128, 255 }

(***************************************************************************)
(* Optional values: Python's None / Go's nil against a present value.      *)
(***************************************************************************)
None == << >>
Some(v) == << v >>
Get(o) == o[1]

(***************************************************************************)
(* GF(256), section 4.1 of the specification: addition is XOR,             *)
(* multiplication is polynomial multiplication modulo the irreducible      *)
(* x^8 + x^4 + x^3 + x + 1, division multiplies by the inverse.            *)
(***************************************************************************)
RECURSIVE Xor(_, _)
Xor(a, b) ==
  IF a = 0 THEN b
  ELSE IF b = 0 THEN a
  ELSE ((a + b) % 2) + 2 * Xor(a \div 2, b \div 2)

gf256_add(a, b) == Xor(a, b)

gf256_sub(a, b) == Xor(a, b)

\* GF256_EXP[i + 1] = g^i for the generator g = x + 1 (3), i in 0..254
GF256_EXP ==
  <<
       1,   3,   5,  15,  17,  51,  85, 255,  26,  46, 114, 150, 161, 248,  19,  53,
      95, 225,  56,  72, 216, 115, 149, 164, 247,   2,   6,  10,  30,  34, 102, 170,
     229,  52,  92, 228,  55,  89, 235,  38, 106, 190, 217, 112, 144, 171, 230,  49,
      83, 245,   4,  12,  20,  60,  68, 204,  79, 209, 104, 184, 211, 110, 178, 205,
      76, 212, 103, 169, 224,  59,  77, 215,  98, 166, 241,   8,  24,  40, 120, 136,
     131, 158, 185, 208, 107, 189, 220, 127, 129, 152, 179, 206,  73, 219, 118, 154,
     181, 196,  87, 249,  16,  48,  80, 240,  11,  29,  39, 105, 187, 214,  97, 163,
     254,  25,  43, 125, 135, 146, 173, 236,  47, 113, 147, 174, 233,  32,  96, 160,
     251,  22,  58,  78, 210, 109, 183, 194,  93, 231,  50,  86, 250,  21,  63,  65,
     195,  94, 226,  61,  71, 201,  64, 192,  91, 237,  44, 116, 156, 191, 218, 117,
     159, 186, 213, 100, 172, 239,  42, 126, 130, 157, 188, 223, 122, 142, 137, 128,
     155, 182, 193,  88, 232,  35, 101, 175, 234,  37, 111, 177, 200,  67, 197,  84,
     252,  31,  33,  99, 165, 244,   7,   9,  27,  45, 119, 153, 176, 203,  70, 202,
      69, 207,  74, 222, 121, 139, 134, 145, 168, 227,  62,  66, 198,  81, 243,  14,
      18,  54,  90, 238,  41, 123, 141, 140, 143, 138, 133, 148, 167, 242,  13,  23,
      57,  75, 221, 124, 132, 151, 162, 253,  28,  36, 108, 180, 199,  82, 246
  >>

\* GF256_LOG[a] = i with g^i = a, a in 1..255
GF256_LOG ==
  <<
       0,  25,   1,  50,   2,  26, 198,  75, 199,  27, 104,  51, 238, 223,   3, 100,
       4, 224,  14,  52, 141, 129, 239,  76, 113,   8, 200, 248, 105,  28, 193, 125,
     194,  29, 181, 249, 185,  39, 106,  77, 228, 166, 114, 154, 201,   9, 120, 101,
      47, 138,   5,  33,  15, 225,  36,  18, 240, 130,  69,  53, 147, 218, 142, 150,
     143, 219, 189,  54, 208, 206, 148,  19,  92, 210, 241,  64,  70, 131,  56, 102,
     221, 253,  48, 191,   6, 139,  98, 179,  37, 226, 152,  34, 136, 145,  16, 126,
     110,  72, 195, 163, 182,  30,  66,  58, 107,  40,  84, 250, 133,  61, 186,  43,
     121,  10,  21, 155, 159,  94, 202,  78, 212, 172, 229, 243, 115, 167,  87, 175,
      88, 168,  80, 244, 234, 214, 116,  79, 174, 233, 213, 231, 230, 173, 232,  44,
     215, 117, 122, 235,  22,  11, 245,  89, 203,  95, 176, 156, 169,  81, 160, 127,
      12, 246, 111,  23, 196,  73, 236, 216,  67,  31,  45, 164, 118, 123, 183, 204,
     187,  62,  90, 251,  96, 177, 134,  59,  82, 161, 108, 170,  85,  41, 157, 151,
     178, 135, 144,  97, 190, 220, 252, 188, 149, 207, 205,  55,  63,  91, 209,  83,
      57, 132,  60,  65, 162, 109,  71,  20,  42, 158,  93,  86, 242, 211, 171,  68,
      17, 146, 217,  35,  32,  46, 137, 180, 124, 184,  38, 119, 153, 227, 165, 103,
      74, 237, 222, 197,  49, 254,  24,  13,  99, 140, 128, 192, 247, 112,   7
  >>

gf256_mul(a, b) ==
  IF a = 0 \/ b = 0 THEN 0
  ELSE GF256_EXP[((GF256_LOG[a] + GF256_LOG[b]) % 255) + 1]

gf256_inverse(a) == GF256_EXP[((255 - GF256_LOG[a]) % 255) + 1]

\* b = 0 raises DivisionByZero: GF256_LOG[0] is undefined and TLC stops there
gf256_div(a, b) == gf256_mul(a, gf256_inverse(b))

(***************************************************************************)
(* Polynomial engine, src/math.go.  A polynomial is the sequence of its    *)
(* coefficients in increasing degree; position k holds degree k - 1.       *)
(***************************************************************************)
Zeros(n) == [ i \in 1..n |-> 0 ]

RECURSIVE f_loop(_, _, _, _, _)
f_loop(x, coefs_bytes, k, accumulator, x_i) ==
  IF k > Len(coefs_bytes) THEN accumulator
  ELSE f_loop(x, coefs_bytes, k + 1,
              gf256_add(accumulator, gf256_mul(coefs_bytes[k], x_i)),
              gf256_mul(x_i, x))

\* f(x) = a + bx + cx^2 + ...; x = 0 panics (-1 stands for the panic)
f(x, coefs_bytes) ==
  IF x = 0 THEN -1 ELSE f_loop(x, coefs_bytes, 1, 0, 1)

add_polynomials(a, b) ==
  LET n  == IF Len(a) < Len(b) THEN Len(b) ELSE Len(a)
      pa == a \o Zeros(n - Len(a))
      pb == b \o Zeros(n - Len(b))
  IN  [ pos \in 1..n |-> gf256_add(pa[pos], pb[pos]) ]

\* multiply_polynomials with a term padding that never grows
RECURSIVE multiply_unpadded_loop(_, _, _, _)
multiply_unpadded_loop(a, b, k, resultterms) ==
  IF k > Len(b) THEN resultterms
  ELSE LET thisvalue == [ i \in 1..Len(a) |-> gf256_mul(a[i], b[k]) ]
       IN  multiply_unpadded_loop(a, b, k + 1, add_polynomials(resultterms, thisvalue))

multiply_unpadded(a, b) == multiply_unpadded_loop(a, b, 1, << >>) \o Zeros(Len(b) - 1)

RECURSIVE multiply_loop(_, _, _, _)
multiply_loop(a, b, k, resultterms) ==
  IF k > Len(b) THEN resultterms
  ELSE LET thisvalue == Zeros(k - 1) \o [ i \in 1..Len(a) |-> gf256_mul(a[i], b[k]) ]
       IN  multiply_loop(a, b, k + 1, add_polynomials(resultterms, thisvalue))

multiply_polynomials(a, b) == multiply_loop(a, b, 1, << >>)

(***************************************************************************)
(* Lagrange interpolation, src/math.go: the full coefficient vector of the *)
(* polynomial through the points (xs[i], fxs[i]).                          *)
(***************************************************************************)
RECURSIVE basis_loop(_, _, _, _)
basis_loop(xs, i, j, this_polynomial) ==
  IF j > Len(xs) THEN this_polynomial
  ELSE IF i = j THEN basis_loop(xs, i, j + 1, this_polynomial)
  ELSE LET denominator == gf256_sub(xs[i], xs[j])
           this_term   == << gf256_div(xs[j], denominator), gf256_div(1, denominator) >>
       IN  basis_loop(xs, i, j + 1, multiply_polynomials(this_polynomial, this_term))

RECURSIVE lagrange_loop(_, _, _, _)
lagrange_loop(xs, fxs, i, returnedcoefficients) ==
  IF i > Len(fxs) THEN returnedcoefficients
  ELSE LET this_polynomial ==
             multiply_polynomials(basis_loop(xs, i, 1, << 1 >>), << fxs[i] >>)
       IN  lagrange_loop(xs, fxs, i + 1,
                         add_polynomials(returnedcoefficients, this_polynomial))

full_lagrange(xs, fxs) == lagrange_loop(xs, fxs, 1, << >>)

(***************************************************************************)
(* The session, src/sss.go.  A share is the pair << x, fx >>.  An          *)
(* operation returns [err, val]: err = "" when it returned val, else the   *)
(* kind of the error it raised.                                            *)
(***************************************************************************)
Ok(v) == [ err |-> "", val |-> v ]
Err(e) == [ err |-> e, val |-> None ]

\* the external random source: the bytes handed out on the call-th request
urandom(seed, call, n) == [ j \in 1..n |-> (seed * ((call - 1) * n + j)) % 256 ]

\* New: the coefficients start as an empty, non-nil list and receive one
\* polynomial per secret byte; without secret data the loop runs zero times
New(threshold, secretdata, seed) ==
  [ Threshhold   |-> threshold,
    Secretdata   |-> secretdata,
    coefficients |->
      Some(IF secretdata = None THEN << >>
           ELSE [ b \in 1..Len(Get(secretdata)) |->
                    << Get(secretdata)[b] >> \o urandom(seed, b, threshold - 1) ]) ]

\* compute_share with the upper bound of the index one lower
compute_share_below_255(self, x) ==
  IF x <= 0 \/ x >= 255 THEN Err("InvalidShareIndex")
  ELSE IF self.coefficients = None THEN Err("NotInitialized")
  ELSE LET coefs == Get(self.coefficients)
       IN  Ok(<< x, [ i \in 1..Len(coefs) |-> f(x, coefs[i]) ] >>)

compute_share(self, x) ==
  IF x <= 0 \/ x >= 256 THEN Err("InvalidShareIndex")
  ELSE IF self.coefficients = None THEN Err("NotInitialized")
  ELSE LET coefs == Get(self.coefficients)
       IN  Ok(<< x, [ i \in 1..Len(coefs) |-> f(x, coefs[i]) ] >>)

\* is_valid_share comparing the index alone
is_valid_share_index_only(self, share) ==
  IF self.coefficients = None THEN Err("NotInitialized")
  ELSE IF Len(Get(self.coefficients)) # Len(share[2]) THEN Err("LengthMismatch")
  ELSE LET correctshare == compute_share(self, share[1])
       IN  IF correctshare.err # "" THEN correctshare
           ELSE Ok(correctshare.val[1] = share[1])

is_valid_share(self, share) ==
  IF self.coefficients = None THEN Err("NotInitialized")
  ELSE IF Len(Get(self.coefficients)) # Len(share[2]) THEN Err("LengthMismatch")
  ELSE LET correctshare == compute_share(self, share[1])
       IN  IF correctshare.err # "" THEN correctshare
           ELSE Ok(correctshare.val = share)

InSeq(e, s) == \E i \in 1..Len(s) : s[i] = e

\* discard_duplicates keeping every share
keep_duplicates(shares, k, newshares) == newshares \o SubSeq(shares, k, Len(shares))

\* discard_duplicates comparing the index alone: the first share of each x stays
RECURSIVE discard_same_x(_, _, _)
discard_same_x(shares, k, newshares) ==
  IF k > Len(shares) THEN newshares
  ELSE discard_same_x(shares, k + 1,
         IF \E i \in 1..Len(newshares) : newshares[i][1] = shares[k][1]
         THEN newshares
         ELSE Append(newshares, shares[k]))

\* discard duplicate shares: a share equal to an earlier one, x and fx alike
RECURSIVE discard_duplicates(_, _, _)
discard_duplicates(shares, k, newshares) ==
  IF k > Len(shares) THEN newshares
  ELSE discard_duplicates(shares, k + 1,
         IF InSeq(shares[k], newshares) THEN newshares
         ELSE Append(newshares, shares[k]))

\* the first bytes must be unique and the shares of one length
RECURSIVE collect_xs(_, _, _)
collect_xs(shares, k, xs) ==
  IF k > Len(shares) THEN Ok(xs)
  ELSE IF InSeq(shares[k][1], xs) THEN Err("DuplicateShareIndex")
  ELSE IF Len(shares[k][2]) # Len(shares[1][2]) THEN Err("MalformedShares")
  ELSE collect_xs(shares, k + 1, Append(xs, shares[k][1]))

\* interpolate_bytes without the check of the higher coefficients
interpolate_unchecked(threshold, shares, xs, byte_to_use, mycoefficients) ==
  Ok(mycoefficients \o
     [ b \in 1..(Len(shares[1][2]) - byte_to_use + 1) |->
         full_lagrange(xs, [ i \in 1..Len(shares) |->
                               shares[i][2][byte_to_use + b - 1] ]) ])

\* interpolate_bytes with the check one coefficient too low
RECURSIVE interpolate_off_by_one(_, _, _, _, _)
interpolate_off_by_one(threshold, shares, xs, byte_to_use, mycoefficients) ==
  IF byte_to_use > Len(shares[1][2]) THEN Ok(mycoefficients)
  ELSE LET fxs == [ i \in 1..Len(shares) |-> shares[i][2][byte_to_use] ]
           resulting_poly == full_lagrange(xs, fxs)
       IN  IF SubSeq(resulting_poly, 1, threshold - 1)
                \o Zeros(Len(shares) - threshold + 1) # resulting_poly
           THEN Err("InconsistentShares")
           ELSE interpolate_off_by_one(threshold, shares, xs, byte_to_use + 1,
                                       Append(mycoefficients, resulting_poly))

\* one interpolation per byte of the secret; val is the list of polynomials
RECURSIVE interpolate_bytes(_, _, _, _, _)
interpolate_bytes(threshold, shares, xs, byte_to_use, mycoefficients) ==
  IF byte_to_use > Len(shares[1][2]) THEN Ok(mycoefficients)
  ELSE LET fxs == [ i \in 1..Len(shares) |-> shares[i][2][byte_to_use] ]
           resulting_poly == full_lagrange(xs, fxs)
       IN  IF SubSeq(resulting_poly, 1, threshold) \o Zeros(Len(shares) - threshold)
                # resulting_poly
           THEN Err("InconsistentShares")
           ELSE interpolate_bytes(threshold, shares, xs, byte_to_use + 1,
                                  Append(mycoefficients, resulting_poly))

\* the polynomial of every byte position, unchecked
all_polynomials(shares, xs) ==
  [ b \in 1..Len(shares[1][2]) |->
      full_lagrange(xs, [ i \in 1..Len(shares) |-> shares[i][2][b] ]) ]

\* decode_shares with the coefficients assigned before the positions are checked
decode_shares_commit_early(self, shares) ==
  LET xs == collect_xs(shares, 1, << >>)
  IN  IF xs.err # "" THEN [ err |-> xs.err, val |-> self ]
      ELSE LET polys == interpolate_bytes(self.Threshhold, shares, xs.val, 1, << >>)
               early == [ self EXCEPT !.coefficients = Some(all_polynomials(shares, xs.val)) ]
           IN  IF polys.err # "" THEN [ err |-> polys.err, val |-> early ]
               ELSE [ err |-> "",
                      val |-> [ early EXCEPT !.Secretdata =
                                  Some([ i \in 1..Len(polys.val) |-> polys.val[i][1] ]) ] ]

\* the body of recover_secretdata once the shares are counted and the session
\* is known to hold no secret: nothing is assigned unless every position passes
decode_shares(self, shares) ==
  LET xs == collect_xs(shares, 1, << >>)
  IN  IF xs.err # "" THEN [ err |-> xs.err, val |-> self ]
      ELSE LET polys == interpolate_bytes(self.Threshhold, shares, xs.val, 1, << >>)
           IN  IF polys.err # "" THEN [ err |-> polys.err, val |-> self ]
               ELSE [ err |-> "",
                      val |-> [ self EXCEPT
                        !.coefficients = Some(polys.val),
                        !.Secretdata =
                          Some([ i \in 1..Len(polys.val) |-> polys.val[i][1] ]) ] ]

\* recover_secretdata without the test for a stored secret
recover_secretdata_again(self, given) ==
  LET shares == discard_duplicates(given, 1, << >>)
  IN  IF self.Threshhold > Len(shares) THEN [ err |-> "InsufficientShares", val |-> self ]
      ELSE decode_shares(self, shares)

\* recover_secretdata: err as above, val the session as the call leaves it
recover_secretdata(self, given) ==
  LET shares == discard_duplicates(given, 1, << >>)
  IN  IF self.Threshhold > Len(shares) THEN [ err |-> "InsufficientShares", val |-> self ]
      ELSE IF self.Secretdata # None THEN [ err |-> "AlreadyDecoded", val |-> self ]
      ELSE decode_shares(self, shares)

(***************************************************************************)
(* What the caller passes in.                                              *)
(***************************************************************************)
Secrets == { SubSeq(t, 1, n) : t \in SecretTexts, n \in 0..MaxSecretLen }

\* the share the encoder computes at x
Genuine(x) == compute_share(encoder, x).val

\* one byte of fx changed to a different value
Tamper(share, k, d) == << share[1], [ share[2] EXCEPT ![k] = (@ + d) % 256 ] >>

\* one byte more of fx
Lengthen(share) == << share[1], Append(share[2], 0) >>

\* the ways one share is altered: one byte changed, or one byte more
Altered(share, deltas) ==
  { Tamper(share, k, d) : k \in 1..Len(share[2]), d \in deltas } \cup { Lengthen(share) }

\* genuine shares, altered ones, and shares at the indices just outside the field
ValidateInputs ==
  UNION { { Genuine(x) } \cup Altered(Genuine(x), ValidateDeltas) : x \in ValidateXs }
    \cup { << x, Genuine(1)[2] >> : x \in { 0, 256 } }

\* lists of genuine shares, at most one of them altered or replaced
RecoverInputs ==
  UNION { UNION { LET base == [ i \in 1..n |-> Genuine(xs[i]) ]
                  IN  { base }
                        \cup UNION { { [ base EXCEPT ![i] = a ] : a \in Altered(base[i], Deltas) }
                                     : i \in 1..n }
                        \cup { [ base EXCEPT ![i] = Genuine(x) ] : i \in 1..n, x \in EdgeXs }
                  : xs \in [ 1..n -> ShareXs ] }
          : n \in 0..MaxShares }

(***************************************************************************)
(* The state: the encoder whose shares are in circulation, the session the *)
(* caller operates on, and the call that has just returned: the           *)
(* operation, the session as it was before the call, the argument and the  *)
(* outcome (op = "Idle" once the caller has taken the outcome).            *)
(***************************************************************************)
Call(op, pre, arg, out) ==
  [ op |-> op, pre |-> pre, arg |-> arg, err |-> out.err, val |-> out.val ]

Init ==
  \E threshold \in 1..MaxThreshold, secret \in Secrets, seed \in RandomSeeds :
    /\ encoder = New(threshold, Some(secret), seed)
    /\ session \in { encoder, New(threshold, None, seed) }
    /\ last = Call("Idle", session, None, Ok(None))

Compute ==
  /\ last.op = "Idle"
  /\ \E x \in ComputeXs :
       last' = Call("Compute", session, x, compute_share(session, x))
  /\ UNCHANGED << encoder, session >>

IsValid ==
  /\ last.op = "Idle"
  /\ \E share \in ValidateInputs :
       last' = Call("IsValid", session, share, is_valid_share(session, share))
  /\ UNCHANGED << encoder, session >>

Recover ==
  /\ last.op = "Idle"
  /\ \E shares \in RecoverInputs :
       LET out == recover_secretdata(session, shares)
       IN  /\ session' = out.val
           /\ last' = Call("Recover", session, shares, [ err |-> out.err, val |-> None ])
  /\ UNCHANGED encoder

\* the caller takes the outcome and is free to make the next call
Return ==
  /\ last.op # "Idle"
  /\ last' = Call("Idle", session, None, Ok(None))
  /\ UNCHANGED << encoder, session >>

Next == Compute \/ IsValid \/ Recover \/ Return

Spec == Init /\ [][Next]_vars

(***************************************************************************)
(* Vocabulary of the properties.                                           *)
(***************************************************************************)
\* a decoder on which no Recover has succeeded yet
FreshDecoder == New(encoder.Threshhold, None, 0)

\* the secret the encoder was constructed with
S == Get(encoder.Secretdata)

\* a share the encoder computes
IsGenuine(share) == share[1] \in 1..255 /\ share = Genuine(share[1])

\* the positions at which fx differs from the genuine share at the same x
OffBytes(share) ==
  { k \in 1..Len(share[2]) : share[2][k] # Genuine(share[1])[2][k] }

\* a genuine share with exactly one byte of fx changed
OneByteOff(share) ==
  /\ share[1] \in 1..255
  /\ Len(share[2]) = Len(S)
  /\ Cardinality(OffBytes(share)) = 1

XsOf(shares) == { shares[i][1] : i \in 1..Len(shares) }

DistinctShares(shares) == { shares[i] : i \in 1..Len(shares) }

PairwiseDistinctX(shares) == Cardinality(XsOf(shares)) = Len(shares)

AllGenuine(shares) == \A i \in 1..Len(shares) : IsGenuine(shares[i])

\* all shares genuine but the i-th, which has one byte of fx changed
TamperedAt(shares, i) ==
  /\ OneByteOff(shares[i])
  /\ \A j \in 1..Len(shares) : j # i => IsGenuine(shares[j])

\* the encoder's polynomials, padded with zero coefficients to length n
Padded(n) ==
  [ b \in 1..Len(S) |->
      Get(encoder.coefficients)[b] \o Zeros(n - encoder.Threshhold) ]

RecoverOnFresh == last.op = "Recover" /\ last.pre = FreshDecoder

(***************************************************************************)
(* C1  Round trip.  Recover on a fresh decoder of the encoder's threshold  *)
(* t, given at least t genuine shares at pairwise distinct x, succeeds     *)
(* and sets the secret to the encoder's secret S (of any length, 0         *)
(* included); every reconstructed polynomial has one coefficient per share *)
(* and those at index >= t are zero.                                       *)
(***************************************************************************)
C1_RoundTrip ==
  ( /\ RecoverOnFresh
    /\ Len(last.arg) >= encoder.Threshhold
    /\ AllGenuine(last.arg)
    /\ PairwiseDistinctX(last.arg) )
  => /\ last.err = ""
     /\ session.Secretdata = Some(S)
     /\ session.Threshhold = encoder.Threshhold
     /\ LET polys == Get(session.coefficients)
        IN  /\ Len(polys) = Len(S)
            /\ \A b \in 1..Len(polys) :
                 /\ Len(polys[b]) = Len(last.arg)
                 /\ \A k \in (encoder.Threshhold + 1)..Len(polys[b]) : polys[b][k] = 0

\* more than t genuine shares, all at indices in [1,254], of a secret of two
\* bytes or more with a polynomial of full degree, recovered
C1_Witness ==
  /\ RecoverOnFresh
  /\ encoder.Threshhold >= 2
  /\ Len(last.arg) > encoder.Threshhold
  /\ AllGenuine(last.arg)
  /\ PairwiseDistinctX(last.arg)
  /\ XsOf(last.arg) \subseteq 1..254
  /\ Len(S) >= 2
  /\ Get(encoder.coefficients)[1][encoder.Threshhold] # 0
  /\ last.err = ""
  /\ session.Secretdata = Some(S)

(***************************************************************************)
(* C3  Redundant tamper detection.  Recover on a fresh decoder, given t+1  *)
(* shares at pairwise distinct x of which one has a single byte of fx      *)
(* changed and the others are genuine, fails with InconsistentShares: the  *)
(* polynomial interpolated at that byte position has a nonzero coefficient *)
(* at index t.                                                             *)
(***************************************************************************)
C3_RedundantTamperDetected ==
  RecoverOnFresh =>
  \A i \in 1..Len(last.arg) :
    ( /\ Len(last.arg) = encoder.Threshhold + 1
      /\ PairwiseDistinctX(last.arg)
      /\ TamperedAt(last.arg, i) )
    => /\ last.err = "InconsistentShares"
       /\ \A k \in OffBytes(last.arg[i]) :
            full_lagrange([ j \in 1..Len(last.arg) |-> last.arg[j][1] ],
                          [ j \in 1..Len(last.arg) |-> last.arg[j][2][k] ])
              [encoder.Threshhold + 1] # 0

C3_Witness ==
  /\ RecoverOnFresh
  /\ encoder.Threshhold = 2
  /\ Len(last.arg) = 3
  /\ PairwiseDistinctX(last.arg)
  /\ TamperedAt(last.arg, 2)
  /\ last.err = "InconsistentShares"

(***************************************************************************)
(* C4  Exact-threshold tamper non-detection.  Recover on a fresh decoder,  *)
(* given exactly t shares at pairwise distinct x of which one has a single *)
(* byte of fx changed and the others are genuine, succeeds, and the secret *)
(* it sets differs from S (at the changed byte position).                  *)
(***************************************************************************)
C4_ExactThresholdTamperUndetected ==
  RecoverOnFresh =>
  \A i \in 1..Len(last.arg) :
    ( /\ Len(last.arg) = encoder.Threshhold
      /\ PairwiseDistinctX(last.arg)
      /\ TamperedAt(last.arg, i) )
    => /\ last.err = ""
       /\ session.Secretdata # Some(S)
       /\ \A k \in OffBytes(last.arg[i]) : Get(session.Secretdata)[k] # S[k]

C4_Witness ==
  /\ RecoverOnFresh
  /\ encoder.Threshhold = 2
  /\ Len(last.arg) = 2
  /\ PairwiseDistinctX(last.arg)
  /\ TamperedAt(last.arg, 1)
  /\ last.err = ""
  /\ session.Secretdata # Some(S)

(***************************************************************************)
(* C2  A session recovered from n >= t genuine shares is the encoder with  *)
(* its polynomials padded to n coefficients, and on such a session         *)
(* IsValid returns true for the encoder's share at every x in [1,254],     *)
(* among the shares used or not, and false for that share with exactly one *)
(* byte of fx changed.                                                     *)
(***************************************************************************)
RecoveredFrom(n) ==
  [ Threshhold   |-> encoder.Threshhold,
    Secretdata   |-> Some(S),
    coefficients |-> Some(Padded(n)) ]

C2_DecodedEquivalent ==
  /\ ( /\ RecoverOnFresh
       /\ Len(last.arg) >= encoder.Threshhold
       /\ AllGenuine(last.arg)
       /\ PairwiseDistinctX(last.arg) )
     => /\ last.err = ""
        /\ session = RecoveredFrom(Len(last.arg))
  /\ ( /\ last.op = "IsValid"
       /\ \E n \in encoder.Threshhold..MaxShares : last.pre = RecoveredFrom(n)
       /\ last.arg[1] \in 1..254 )
     => /\ IsGenuine(last.arg) => (last.err = "" /\ last.val = TRUE)
        /\ OneByteOff(last.arg) => (last.err = "" /\ last.val = FALSE)

\* a share at an x no Recover is ever given, validated by a session recovered
\* from more than t shares
C2_Witness ==
  /\ last.op = "IsValid"
  /\ encoder.Threshhold = 2
  /\ Len(S) >= 2
  /\ last.pre = RecoveredFrom(3)
  /\ last.arg[1] = 3
  /\ IsGenuine(last.arg)
  /\ last.err = ""
  /\ last.val = TRUE

(***************************************************************************)
(* C5  As claimed: Recover fails with InsufficientShares whenever the      *)
(* shares hold fewer than threshold distinct x, a repeated x counting      *)
(* once whether its fx is the same or not.                                 *)
(***************************************************************************)
C5_AsClaimed ==
  ( /\ RecoverOnFresh
    /\ Cardinality(XsOf(last.arg)) < last.pre.Threshhold )
  => last.err = "InsufficientShares"

(***************************************************************************)
(* C5  As amended: Recover fails whenever the shares hold fewer than       *)
(* threshold distinct x; the failure is InsufficientShares exactly when    *)
(* they hold fewer than threshold distinct shares, x and fx together.  A   *)
(* share that repeats an x with another fx counts as one more share, and   *)
(* the call then fails with AlreadyDecoded on a session holding a secret   *)
(* and else with DuplicateShareIndex or MalformedShares.                   *)
(***************************************************************************)
C5_ThresholdMinimality ==
  last.op = "Recover" =>
    LET few == Cardinality(DistinctShares(last.arg)) < last.pre.Threshhold
    IN  /\ (last.err = "InsufficientShares") <=> few
        /\ Cardinality(XsOf(last.arg)) < last.pre.Threshhold =>
             /\ last.err # ""
             /\ ~few => last.err \in
                  IF last.pre.Secretdata # None THEN { "AlreadyDecoded" }
                  ELSE { "DuplicateShareIndex", "MalformedShares" }

\* t - 1 distinct x and one share that repeats an x with another fx
C5_Witness ==
  /\ RecoverOnFresh
  /\ Len(last.arg) = last.pre.Threshhold
  /\ Cardinality(XsOf(last.arg)) = last.pre.Threshhold - 1
  /\ Cardinality(DistinctShares(last.arg)) = last.pre.Threshhold
  /\ last.err = "DuplicateShareIndex"

(***************************************************************************)
(* C6  As claimed: Recover keeps the first share of each x, so that        *)
(* a list with at least t distinct x and later shares repeating an x, with *)
(* the same fx or not, leaves the session as Recover on the list without   *)
(* the later shares does, and succeeds where that one succeeds.            *)
(***************************************************************************)
FirstByX(shares) ==
  LET keep == { i \in 1..Len(shares) : \A j \in 1..(i - 1) : shares[j][1] # shares[i][1] }
      RECURSIVE pick(_)
      pick(i) == IF i > Len(shares) THEN << >>
                 ELSE (IF i \in keep THEN << shares[i] >> ELSE << >>) \o pick(i + 1)
  IN  pick(1)

RepeatsAnX(shares) ==
  /\ Cardinality(XsOf(shares)) >= last.pre.Threshhold
  /\ Len(shares) > Cardinality(XsOf(shares))

C6_AsClaimed ==
  ( /\ RecoverOnFresh
    /\ RepeatsAnX(last.arg)
    /\ recover_secretdata(last.pre, FirstByX(last.arg)).err = "" )
  => /\ last.err = ""
     /\ session = recover_secretdata(last.pre, FirstByX(last.arg)).val

(***************************************************************************)
(* C6  As amended: a later share equal to an earlier one, x and fx alike,  *)
(* is discarded, and the call ends as Recover on the list without it ends; *)
(* a later share that repeats an x with another fx makes Recover fail with *)
(* DuplicateShareIndex or MalformedShares and leaves the session as it was.*)
(***************************************************************************)
C6_DuplicateShares ==
  ( RecoverOnFresh /\ RepeatsAnX(last.arg) ) =>
    IF Cardinality(DistinctShares(last.arg)) = Cardinality(XsOf(last.arg))
    THEN LET r == recover_secretdata(last.pre, FirstByX(last.arg))
         IN  last.err = r.err /\ session = r.val
    ELSE /\ last.err \in { "DuplicateShareIndex", "MalformedShares" }
         /\ session = last.pre

\* t genuine shares and a later equal one: recovered
C6_Witness ==
  /\ RecoverOnFresh
  /\ RepeatsAnX(last.arg)
  /\ Len(S) >= 1
  /\ Cardinality(DistinctShares(last.arg)) = Cardinality(XsOf(last.arg))
  /\ AllGenuine(last.arg)
  /\ last.err = ""
  /\ session.Secretdata = Some(S)

(***************************************************************************)
(* C7  Recover is all-or-nothing: when it fails, for whatever reason, the  *)
(* session is what it was before the call; a fresh decoder is then still   *)
(* one on which Recover with t genuine shares succeeds.                    *)
(***************************************************************************)
FirstShares == [ i \in 1..encoder.Threshhold |-> Genuine(i) ]

C7_AllOrNothing ==
  ( last.op = "Recover" /\ last.err # "" )
  => /\ session = last.pre
     /\ last.pre = FreshDecoder => recover_secretdata(session, FirstShares).err = ""

\* the last byte position fails the check after the earlier ones passed
C7_Witness ==
  /\ RecoverOnFresh
  /\ Len(S) >= 2
  /\ last.err = "InconsistentShares"
  /\ \E i \in 1..Len(last.arg) :
       TamperedAt(last.arg, i) /\ OffBytes(last.arg[i]) = { Len(S) }
  /\ session = FreshDecoder

(***************************************************************************)
(* C8  As claimed: Compute, IsValid and Recover fail with                  *)
(* InvalidShareIndex for every share index outside [1,254]: Compute and    *)
(* IsValid (given an fx of the right length) on a session that holds a     *)
(* secret, Recover on a fresh decoder given shares that are otherwise      *)
(* good.                                                                   *)
(***************************************************************************)
C8_AsClaimed ==
  /\ (last.op = "Compute" /\ last.pre.Secretdata # None /\ last.arg \notin 1..254)
       => last.err = "InvalidShareIndex"
  /\ ( /\ last.op = "IsValid"
       /\ last.pre.Secretdata # None
       /\ Len(last.arg[2]) = Len(Get(last.pre.coefficients))
       /\ last.arg[1] \notin 1..254 )
       => last.err = "InvalidShareIndex"
  /\ ( /\ RecoverOnFresh
       /\ Len(last.arg) >= encoder.Threshhold
       /\ AllGenuine(last.arg)
       /\ PairwiseDistinctX(last.arg)
       /\ \E i \in 1..Len(last.arg) : last.arg[i][1] \notin 1..254 )
       => last.err = "InvalidShareIndex"

(***************************************************************************)
(* C8  As amended: Compute fails with InvalidShareIndex exactly for the    *)
(* indices outside [1,255], and 255 yields a share; IsValid of a share     *)
(* with an index outside [1,255] returns no boolean: it fails with         *)
(* LengthMismatch when fx has not one byte per polynomial and else with    *)
(* InvalidShareIndex; the encoder finds its share at 255 valid; Recover    *)
(* checks no index and recovers from genuine shares that include x = 255.  *)
(***************************************************************************)
C8_IndexRange ==
  /\ last.op = "Compute" =>
       /\ (last.err = "InvalidShareIndex") <=> (last.arg \notin 1..255)
       /\ (last.arg = 255 /\ last.pre = encoder) =>
            (last.err = "" /\ last.val[1] = 255 /\ Len(last.val[2]) = Len(S))
  /\ (last.op = "IsValid" /\ last.arg[1] \notin 1..255) =>
       last.err = IF Len(last.arg[2]) # Len(Get(last.pre.coefficients))
                  THEN "LengthMismatch" ELSE "InvalidShareIndex"
  /\ (last.op = "IsValid" /\ last.pre = encoder /\ last.arg[1] = 255
        /\ IsGenuine(last.arg)) => (last.err = "" /\ last.val = TRUE)
  /\ last.op = "Recover" =>
       /\ last.err # "InvalidShareIndex"
       /\ ( /\ last.pre = FreshDecoder
            /\ 255 \in XsOf(last.arg)
            /\ Len(last.arg) >= encoder.Threshhold
            /\ AllGenuine(last.arg)
            /\ PairwiseDistinctX(last.arg) ) => last.err = ""

\* the encoder computes its share at 255
C8_Witness ==
  /\ last.op = "Compute"
  /\ last.pre = encoder
  /\ Len(S) >= 1
  /\ last.arg = 255
  /\ last.err = ""
  /\ last.val[1] = 255

(***************************************************************************)
(* C9  As claimed: on a session constructed without a secret, Compute and  *)
(* IsValid, called with an index in [1,254] before any Recover succeeded,  *)
(* fail with NotInitialized.                                               *)
(***************************************************************************)
C9_AsClaimed ==
  /\ (last.op = "Compute" /\ last.pre = FreshDecoder /\ last.arg \in 1..254)
       => last.err = "NotInitialized"
  /\ (last.op = "IsValid" /\ last.pre = FreshDecoder /\ last.arg[1] \in 1..254)
       => last.err = "NotInitialized"

(***************************************************************************)
(* C10  A session's secret is set at most once: once a session holds a     *)
(* secret, of whatever length, supplied at construction or set by Recover, *)
(* no call changes the session, and Recover with at least threshold        *)
(* distinct shares fails with AlreadyDecoded.                              *)
(***************************************************************************)
C10_SecretSetOnce ==
  last.pre.Secretdata # None =>
    /\ session = last.pre
    /\ ( /\ last.op = "Recover"
         /\ Cardinality(DistinctShares(last.arg)) >= last.pre.Threshhold )
       => last.err = "AlreadyDecoded"

\* the secret was set by a Recover (it is not the encoder's), and t genuine
\* shares at distinct x are refused
C10_Witness ==
  /\ last.op = "Recover"
  /\ last.pre.Secretdata # None
  /\ last.pre.Secretdata # Some(S)
  /\ Len(last.arg) >= last.pre.Threshhold
  /\ AllGenuine(last.arg)
  /\ PairwiseDistinctX(last.arg)
  /\ last.err = "AlreadyDecoded"
  /\ session = last.pre

====
